---- MODULE Spec2Model ----
(***************************************************************************)
(* OHRBETS GUI: live acquisition (app.py: ArduinoInterface, the Streamlit  *)
(* script main() with its callbacks handle_data / handle_status), the     *)
(* offline analysis of a loaded event table (analysis.py), the real-time   *)
(* comparison (real_time_viz.py) and the generator of test data            *)
(* (generate_test_data.py, dashboard.py) and the hardware test page        *)
(* (hardware_test.py).                                                     *)
(*                                                                         *)
(* Spec          the reader thread of ArduinoInterface against the main    *)
(*               thread that reruns the Streamlit script.                  *)
(* SpecAnalysis  analysis.py applied to a loaded table.                    *)
(* SpecMetrics   the binned and per-trial metrics of analysis.py and       *)
(*               real_time_viz.py on a table with any timestamps.          *)
(* SpecFormulas  the bin edges and the discrimination index applied to     *)
(*               drawn arguments.                                          *)
(* SpecGenerator the generators of test data called with drawn arguments   *)
(*               and random draws.                                         *)
(* SpecTester    the reader thread of ArduinoTester (hardware_test.py)     *)
(*               against the main thread of the hardware test page.        *)
(***************************************************************************)
EXTENDS Integers, Sequences, FiniteSets, TLC

(***************************************************************************)
(* Bounds of the model.                                                    *)
(***************************************************************************)
\* Lines the serial link delivers plus errors the main thread reports.
MaxEvents == 3
\* Rows of a table loaded for analysis.
MaxRows == 3
\* Rows of a table of the metric model: enough for a trial of each condition
\* with two licks in one of them.
MaxMetricRows == 4
\* process_queue handles at most this many messages per call.  The source
\* writes the limit as the literal 100 (app.py:132); the model scales it so
\* that a call that stops at the limit with messages left is within MaxEvents.
BatchLimit == 2
\* Windows of the binning formulas lie in -MaxWindow..MaxWindow.
MaxWindow == 3
\* Anticipatory licks summed over the trials of one condition in a bin.
MaxLicks == 4
\* ArduinoTester._process_message keeps at most this many status messages.
\* The source writes the limit as the literal 20 (hardware_test.py:103); the
\* model scales it so that a full list is within MaxEvents.
StatusLimit == 2
\* num_trials asked of generate_dataset.
MaxNumTrials == 3
\* Trials of each type in create_example_data.  The source writes the
\* literal 50 (dashboard.py:301); the model scales it, keeping it above the
\* run of 4 the pass looks for.
TrialsPerType == 5
\* Iterations of the loop of generate_lick_bursts the model follows: one
\* more than a window of 1 s takes at the shortest step of 0.2 s.
MaxIterations == 6

(***************************************************************************)
(* Program constants.                                                      *)
(***************************************************************************)
TRIAL_START == 1
TRIAL_END == 2
ODOR_ON == 3
ODOR_OFF == 4
REWARD_ON == 5
REWARD_OFF == 6
LICK == 7
\* EVENT_NAMES maps exactly these codes (app.py:16-24).
EVENT_NAMES == {TRIAL_START, TRIAL_END, ODOR_ON, ODOR_OFF, REWARD_ON, REWARD_OFF, LICK}
\* trial_type of a row that was given none: the column holds NaN there.
NaN == 0
CS_PLUS == 1
CS_MINUS == 2
\* timestamp = float(parts[1]) / 1000.0
MsPerSecond == 1000

(***************************************************************************)
(* Inputs of the live model.                                               *)
(***************************************************************************)
\* Codes the serial link delivers in DATA lines; 9 is a code the controller
\* never defines, still an integer on the wire.
LiveCodes == {TRIAL_START, TRIAL_END, ODOR_ON, LICK, 9}
\* Status lines of the controller that handle_status acts on.
StatusLines == {"SESSION_COMPLETE"}

(***************************************************************************)
(* Inputs of the analysis model.                                           *)
(***************************************************************************)
\* Event codes, trial numbers and trial types of the rows of a loaded table.
AnalysisCodes == {ODOR_ON, REWARD_ON, LICK}
AnalysisTrials == {0, 1, 2}
AnalysisTypes == {CS_PLUS, CS_MINUS}
\* (window, bin_size) a caller passes to plot_heatmap_by_type, in whole
\* seconds: a width that divides the window and one that does not.
HeatmapWindows == {<<0 - 1, 1, 1>>, <<0, 1, 3>>}

(***************************************************************************)
(* Inputs of the metric model.                                             *)
(***************************************************************************)
\* Timestamps of the rows of a table, in whole seconds; 12 lies more than the
\* latency ceiling of 10 s after the others.
MetricTimes == {0, 1, 2, 12}
\* (window[0], window[1], bin_size) a caller passes to a binning function: a
\* width that does not divide the window, one that does, a zero width, a
\* negative width, a window whose minimum is above its maximum.
\* profile_type of generate_dataset.
Profiles == {"robust", "anticipatory", "non_learner", "normal"}
\* The licks generate_trial_licking draws for a trial, as offsets from the
\* odor onset in units of 0.5 s: none, one lick 0.5 s after the onset, one
\* lick at the start of the baseline period, 5 s before the onset, or one
\* lick 3 s after the onset.
LickOffsets == {<< >>, <<1>>, <<0 - 10>>, <<6>>}
\* random.uniform(4.5, 5.5), the delay from the trial start to the odor onset,
\* in units of 0.5 s: its lower end and its midpoint.
OdorDelays == {9, 10}
BinningCalls == {<<0, 1, 3>>, <<0 - 1, 1, 1>>, <<0, 1, 0>>, <<0, 1, 0 - 1>>, <<1, 0, 1>>}

VARIABLES
    serial,             \* self.serial: "none" | "open" | "closed"
    running,            \* self.running
    connected,          \* self.connected
    rpc,                \* reader thread: "none" | "loop" | "read" | "put" | "dead"
    rmsg,               \* the (event_code, timestamp) the reader is about to put
    data,               \* self.data: the (event_code, timestamp) pairs received
    message_queue,      \* self.message_queue (queue.Queue(), FIFO, no maxsize)
    callbacks,          \* data_callback and status_callback are registered
    mpc,                \* main thread: "idle" | "drain" | "body" | "join"
    messages_processed, \* the counter of process_queue
    ss_data,            \* st.session_state.data: the session EventStream
    session_running,    \* st.session_state.session_running
    saved,              \* the table SESSION_COMPLETE wrote to the csv file
    log,                \* history: every row handle_data ever appended
    clock,              \* lines delivered and errors reported so far
    apc,                \* analysis: "off" | "loaded" | "typed"
    df,                 \* analysis: the loaded table
    has_trial_type,     \* analysis: 'trial_type' in df.columns
    inferred,           \* analysis: the counts "Inferred trial types" reports
    heatmap,            \* analysis: result of plot_heatmap_by_type
    comparison,         \* analysis: the per-trial lists of plot_trial_comparison
    call,               \* analysis: the function last called and its arguments
    result,             \* analysis: what that call returned
    status_messages     \* hardware test: ArduinoTester.status_messages

metricVars == <<call, result>>
analysisVars == <<apc, df, has_trial_type, inferred, heatmap, comparison, metricVars>>
liveVars == <<serial, running, connected, rpc, rmsg, data, message_queue, callbacks,
              mpc, messages_processed, ss_data, session_running, saved, log, clock>>
testerVars == <<status_messages>>
vars == <<liveVars, analysisVars, testerVars>>

\* No analysis function has been called: no arguments, nothing returned.
NoCall ==
    [fn |-> "none", align_event |-> 0, trial_type |-> 0, window |-> <<0, 0>>,
     bin_size |-> 0, profile_type |-> "", num_trials |-> 0]

NoResult == [status |-> "none"]

(***************************************************************************)
(* Messages and rows.                                                      *)
(***************************************************************************)
\* ("data", (event_code, timestamp)) as put at app.py:121
DataMsg(event_code, timestamp) ==
    [type |-> "data", event_code |-> event_code, timestamp |-> timestamp, text |-> ""]

\* ("status", text) as put at app.py:61, 89, 101, 127
StatusMsg(text) ==
    [type |-> "status", event_code |-> 0, timestamp |-> 0, text |-> text]

\* The lines the serial link can deliver as its n-th line: a well-formed
\* "DATA:code,ms" line, a DATA line whose fields do not parse, a status line.
Lines(n) ==
    [kind : {"data"}, event_code : LiveCodes, ms : {n * MsPerSecond}, text : {""}]
    \cup [kind : {"baddata"}, event_code : {0}, ms : {0}, text : {""}]
    \cup [kind : {"status"}, event_code : {0}, ms : {0}, text : StatusLines]

\* As CountTrialStarts, but 0 once the last trial has ended.
CountTrialStartsClosed(d) ==
    LET starts == {i \in 1..Len(d) : d[i][1] = TRIAL_START}
        ends == {i \in 1..Len(d) : d[i][1] = TRIAL_END}
        open == \E i \in starts : \A j \in ends : j < i
    IN  IF open THEN Cardinality(starts) ELSE 0

\* len([row for row in st.session_state.arduino.data if row[0] == 1])
CountTrialStarts(d) ==
    Cardinality({i \in 1..Len(d) : d[i][1] = TRIAL_START})

\* handle_data's trial_type: set on a Trial Start row only, and only when an
\* Odor On is already in self.data; then always 1 ("Default to CS+").
TrialTypeOf(event_code, d) ==
    IF /\ event_code = TRIAL_START
       /\ CountTrialStarts(d) > 0
       /\ Len(d) > 0
       /\ \E i \in 1..Len(d) : d[i][1] = ODOR_ON
    THEN CS_PLUS
    ELSE NaN

\* handle_data(event_code, timestamp): the row it appends, computed from
\* arduino.data as it is when the callback runs.
NewRow(event_code, timestamp, d) ==
    [event_code |-> event_code,
     timestamp |-> timestamp,
     trial_number |-> CountTrialStarts(d),
     trial_type |-> TrialTypeOf(event_code, d)]

(***************************************************************************)
(* The reader thread: ArduinoInterface._read_loop and _process_message.    *)
(***************************************************************************)
\* while self.running and self.serial and self.serial.is_open
ReaderCheck ==
    /\ rpc = "loop"
    /\ rpc' = IF running /\ serial = "open" THEN "read" ELSE "dead"
    /\ UNCHANGED <<serial, running, connected, rmsg, data, message_queue, callbacks,
                   mpc, messages_processed, ss_data, session_running, saved, log, clock,
                   analysisVars, testerVars>>

\* in_waiting is 0: nothing to read, sleep and loop
ReaderIdle ==
    /\ rpc = "read"
    /\ serial = "open"
    /\ rpc' = "loop"
    /\ UNCHANGED <<serial, running, connected, rmsg, data, message_queue, callbacks,
                   mpc, messages_processed, ss_data, session_running, saved, log, clock,
                   analysisVars, testerVars>>

\* readline() returned a line; _process_message up to and including
\* self.data.append for a DATA line, the whole of it for any other line.
ReaderReadLine ==
    /\ rpc = "read"
    /\ serial = "open"
    /\ clock < MaxEvents
    /\ clock' = clock + 1
    /\ \E line \in Lines(clock + 1) :
         CASE line.kind = "data" ->
                LET event_code == line.event_code
                    timestamp == line.ms \div MsPerSecond
                IN  /\ data' = Append(data, <<event_code, timestamp>>)
                    /\ rmsg' = <<event_code, timestamp>>
                    /\ rpc' = "put"
                    /\ UNCHANGED message_queue
           [] line.kind = "baddata" ->
                /\ rpc' = "loop"
                /\ UNCHANGED <<data, rmsg, message_queue>>
           [] line.kind = "status" ->
                /\ message_queue' = Append(message_queue, StatusMsg(line.text))
                /\ rpc' = "loop"
                /\ UNCHANGED <<data, rmsg>>
    /\ UNCHANGED <<serial, running, connected, callbacks, mpc, messages_processed,
                   ss_data, session_running, saved, log, analysisVars, testerVars>>

\* self.message_queue.put(("data", (event_code, timestamp)))
ReaderPut ==
    /\ rpc = "put"
    /\ message_queue' = Append(message_queue, DataMsg(rmsg[1], rmsg[2]))
    /\ rpc' = "loop"
    /\ rmsg' = <<0, 0>>
    /\ UNCHANGED <<serial, running, connected, data, callbacks, mpc,
                   messages_processed, ss_data, session_running, saved, log, clock,
                   analysisVars, testerVars>>

\* except Exception: put ("status", "Read error: ...") and break.  The port
\* was closed under the read, or the device failed.
ReaderError ==
    /\ rpc = "read"
    /\ serial = "closed" \/ clock < MaxEvents
    /\ clock' = IF serial = "closed" THEN clock ELSE clock + 1
    /\ message_queue' = Append(message_queue, StatusMsg("Read error"))
    /\ rpc' = "dead"
    /\ UNCHANGED <<serial, running, connected, rmsg, data, callbacks, mpc,
                   messages_processed, ss_data, session_running, saved, log, analysisVars, testerVars>>

(***************************************************************************)
(* The main thread: one run of the Streamlit script main().                *)
(***************************************************************************)
\* A rerun of the script begins; process_queue is entered (app.py:188).
RunScript ==
    /\ mpc = "idle"
    /\ mpc' = "drain"
    /\ messages_processed' = 0
    /\ UNCHANGED <<serial, running, connected, rpc, rmsg, data, message_queue,
                   callbacks, ss_data, session_running, saved, log, clock,
                   analysisVars, testerVars>>

\* handle_status(message), for the messages the model delivers.
HandleStatus(text) ==
    IF text = "SESSION_COMPLETE"
    THEN /\ session_running' = FALSE
         /\ saved' = IF ss_data # << >> THEN ss_data ELSE saved
    ELSE UNCHANGED <<session_running, saved>>

\* As NextMessage, for a queue that hands out its newest message first.
NextMessageLast(q) == Len(q)

\* The place in the queue of the message self.message_queue.get() returns.
NextMessage(q) == 1

\* The queue without its i-th message.
Without(q, i) == [k \in 1..(Len(q) - 1) |-> IF k < i THEN q[k] ELSE q[k + 1]]

\* One iteration of the loop of process_queue, with the callback it calls.
ProcessOne ==
    /\ mpc = "drain"
    /\ message_queue # << >>
    /\ messages_processed < BatchLimit
    /\ LET i == NextMessage(message_queue)
           msg == message_queue[i]
       IN  /\ message_queue' = Without(message_queue, i)
           /\ IF msg.type = "data" /\ callbacks
              THEN LET row == NewRow(msg.event_code, msg.timestamp, data)
                   IN  /\ ss_data' = Append(ss_data, row)
                       /\ log' = Append(log, row)
                       /\ UNCHANGED <<session_running, saved>>
              ELSE IF msg.type = "status" /\ callbacks
              THEN /\ HandleStatus(msg.text)
                   /\ UNCHANGED <<ss_data, log>>
              ELSE UNCHANGED <<ss_data, log, session_running, saved>>
    /\ messages_processed' = messages_processed + 1
    /\ UNCHANGED <<serial, running, connected, rpc, rmsg, data, callbacks, mpc, clock,
                   analysisVars, testerVars>>

\* The loop of process_queue ends: the queue is empty or the limit is reached,
\* and the call returns (its counter is a local).
ProcessDone ==
    /\ mpc = "drain"
    /\ ~(message_queue # << >> /\ messages_processed < BatchLimit)
    /\ mpc' = "body"
    /\ messages_processed' = 0
    /\ UNCHANGED <<serial, running, connected, rpc, rmsg, data, message_queue, callbacks,
                   ss_data, session_running, saved, log, clock, analysisVars, testerVars>>

\* No button was pressed: the script runs to its end and registers the
\* callbacks (app.py:752-753).
NoButton ==
    /\ mpc = "body"
    /\ callbacks' = TRUE
    /\ mpc' = "idle"
    /\ UNCHANGED <<serial, running, connected, rpc, rmsg, data, message_queue,
                   messages_processed, ss_data, session_running, saved, log, clock,
                   analysisVars, testerVars>>

\* "Connect" pressed, connect() succeeds, st.rerun().  A button exists only
\* once a run has rendered it, and the first run ends at app.py:752.  An
\* earlier reader thread has ended during the two seconds connect() sleeps
\* with running still False.
ConnectOk ==
    /\ mpc = "body"
    /\ callbacks
    /\ ~connected
    /\ rpc \in {"none", "dead"}
    /\ serial' = "open"
    /\ connected' = TRUE
    /\ running' = TRUE
    /\ rpc' = "loop"
    /\ mpc' = "idle"
    /\ UNCHANGED <<rmsg, data, message_queue, callbacks, messages_processed,
                   ss_data, session_running, saved, log, clock,
                   analysisVars, testerVars>>

\* "Connect" pressed, serial.Serial raises: the error is queued, connect()
\* returns False and the script runs to its end.
ConnectFail ==
    /\ mpc = "body"
    /\ callbacks
    /\ ~connected
    /\ clock < MaxEvents
    /\ clock' = clock + 1
    /\ message_queue' = Append(message_queue, StatusMsg("Connection error"))
    /\ mpc' = "idle"
    /\ UNCHANGED <<serial, running, connected, rpc, rmsg, data, callbacks,
                   messages_processed, ss_data, session_running, saved, log, analysisVars, testerVars>>

\* "Disconnect" pressed: disconnect() up to the join.
DisconnectBegin ==
    /\ mpc = "body"
    /\ callbacks
    /\ connected
    /\ running' = FALSE
    /\ mpc' = "join"
    /\ UNCHANGED <<serial, connected, rpc, rmsg, data, message_queue, callbacks,
                   messages_processed, ss_data, session_running, saved, log, clock,
                   analysisVars, testerVars>>

\* self.thread.join(timeout=1.0) returns, because the thread has ended or
\* because the timeout ran out; the port is closed, connected is cleared and
\* the script reruns.  The second can run out only while the reader waits in
\* its read (the port is opened with timeout=1); its other steps do not wait.
DisconnectEnd ==
    /\ mpc = "join"
    /\ rpc \in {"dead", "read"}
    /\ serial' = IF serial = "open" THEN "closed" ELSE serial
    /\ connected' = FALSE
    /\ mpc' = "idle"
    /\ UNCHANGED <<running, rpc, rmsg, data, message_queue, callbacks,
                   messages_processed, ss_data, session_running, saved, log, clock,
                   analysisVars, testerVars>>

\* send_command(command): True, or False with the error queued.
SendCommand(ok) ==
    IF ok \/ ~connected \/ serial = "none"
    THEN UNCHANGED <<message_queue, clock>>
    ELSE /\ message_queue' = Append(message_queue, StatusMsg("Send error"))
         /\ clock' = clock + 1

\* "Start Session" pressed (app.py:425-432).
StartSession ==
    /\ mpc = "body"
    /\ callbacks
    /\ connected
    /\ ~session_running
    /\ \E ok \in BOOLEAN : (ok \/ clock < MaxEvents) /\ SendCommand(ok)
    /\ session_running' = TRUE
    /\ ss_data' = << >>
    /\ mpc' = "idle"
    /\ UNCHANGED <<serial, running, connected, rpc, rmsg, data, callbacks,
                   messages_processed, saved, log, analysisVars, testerVars>>

\* "Abort Session" pressed (app.py:434-437).
AbortSession ==
    /\ mpc = "body"
    /\ callbacks
    /\ connected
    /\ session_running
    /\ \E ok \in BOOLEAN : (ok \/ clock < MaxEvents) /\ SendCommand(ok)
    /\ session_running' = FALSE
    /\ mpc' = "idle"
    /\ UNCHANGED <<serial, running, connected, rpc, rmsg, data, callbacks,
                   messages_processed, ss_data, saved, log, analysisVars, testerVars>>

\* ArduinoInterface.__init__ and the session state main() creates.
InitLive ==
    /\ serial = "none"
    /\ running = FALSE
    /\ connected = FALSE
    /\ rpc = "none"
    /\ rmsg = <<0, 0>>
    /\ data = << >>
    /\ message_queue = << >>
    /\ callbacks = FALSE
    /\ mpc = "idle"
    /\ messages_processed = 0
    /\ ss_data = << >>
    /\ session_running = FALSE
    /\ saved = << >>
    /\ log = << >>
    /\ clock = 0

\* ArduinoTester.__init__: self.status_messages = []
InitTester == status_messages = << >>

AnalysisOff ==
    /\ apc = "off"
    /\ df = << >>
    /\ has_trial_type = FALSE
    /\ inferred = << >>
    /\ heatmap = [y |-> << >>, z |-> << >>]
    /\ comparison = << >>
    /\ call = NoCall
    /\ result = NoResult

Init == InitLive /\ AnalysisOff /\ InitTester

Next ==
    \/ ReaderCheck
    \/ ReaderIdle
    \/ ReaderReadLine
    \/ ReaderPut
    \/ ReaderError
    \/ RunScript
    \/ ProcessOne
    \/ ProcessDone
    \/ NoButton
    \/ ConnectOk
    \/ ConnectFail
    \/ DisconnectBegin
    \/ DisconnectEnd
    \/ StartSession
    \/ AbortSession

Spec == Init /\ [][Next]_vars

(***************************************************************************)
(* Offline analysis (analysis.py) of a loaded table.                       *)
(***************************************************************************)
\* The values of a sequence in order of first appearance: Series.unique()
RECURSIVE Unique(_)
Unique(s) ==
    IF s = << >>
    THEN << >>
    ELSE LET r == Unique(SubSeq(s, 1, Len(s) - 1))
             x == s[Len(s)]
         IN  IF \E i \in 1..Len(r) : r[i] = x THEN r ELSE Append(r, x)

\* sorted(...) of a set of integers
RECURSIVE Sorted(_)
Sorted(S) ==
    IF S = {}
    THEN << >>
    ELSE LET m == CHOOSE x \in S : \A y \in S : x <= y
         IN  <<m>> \o Sorted(S \ {m})

\* df[cond]: the rows that satisfy cond, in table order
Filter(d, cond(_)) == SelectSeq(d, cond)

\* df[df['trial_type'] == t]['trial_number'].unique()
TrialsOfType(d, t) ==
    LET rows == Filter(d, LAMBDA r : r.trial_type = t)
    IN  Unique([k \in 1..Len(rows) |-> rows[k].trial_number])

\* df[(df['event_code'] == code) & (df['trial_number'] == trial)]
EventsOf(d, code, trial) ==
    Filter(d, LAMBDA r : r.event_code = code /\ r.trial_number = trial)

\* As InferredType, looking for Reward Off where the source looks for Reward On.
InferredTypeByRewardOff(d, trial) ==
    IF Len(EventsOf(d, REWARD_OFF, trial)) > 0 THEN CS_PLUS ELSE CS_MINUS

\* main(): trial_types[trial], from the Reward On events of the trial

InferredType(d, trial) ==
    IF Len(EventsOf(d, REWARD_ON, trial)) > 0 THEN CS_PLUS ELSE CS_MINUS

\* main(): if 'trial_type' not in data.columns
InferenceRuns(has_column) == ~has_column

\* main() of analysis.py, "Check if we need to derive trial types"
InferTrialTypes ==
    /\ apc = "loaded"
    /\ apc' = "typed"
    /\ IF InferenceRuns(has_trial_type)
       THEN LET trial_numbers == Unique([k \in 1..Len(df) |-> df[k].trial_number])
                trial_types == [k \in 1..Len(trial_numbers) |->
                                  InferredType(df, trial_numbers[k])]
                TypeOf(trial) ==
                    trial_types[CHOOSE k \in 1..Len(trial_numbers) :
                                  trial_numbers[k] = trial]
            IN  /\ df' = [k \in 1..Len(df) |->
                            [df[k] EXCEPT !.trial_type = TypeOf(df[k].trial_number)]]
                /\ inferred' =
                     <<Cardinality({k \in 1..Len(trial_types) : trial_types[k] = CS_PLUS}),
                       Cardinality({k \in 1..Len(trial_types) : trial_types[k] = CS_MINUS})>>
                /\ has_trial_type' = TRUE
       ELSE UNCHANGED <<df, inferred, has_trial_type>>
    /\ UNCHANGED <<heatmap, comparison, metricVars, liveVars, testerVars>>

\* As Arange for step > 0, with stop itself as the last value when the
\* steps reach it.
ArangeInclusive(start, stop, step) ==
    LET n == IF stop >= start THEN (stop - start) \div step + 1 ELSE 0
    IN  [k \in 1..n |-> start + (k - 1) * step]

\* np.arange(start, stop, step) for whole numbers, step # 0: the values
\* start + k * step short of stop, ceil((stop - start) / step) of them
Arange(start, stop, step) ==
    LET n == IF step > 0
             THEN IF stop > start THEN (stop - start + step - 1) \div step ELSE 0
             ELSE IF stop < start THEN (start - stop - step - 1) \div (0 - step) ELSE 0
    IN  [k \in 1..n |-> start + (k - 1) * step]

\* ((rel_times >= bin_start) & (rel_times < bin_end)).sum()
BinCount(rel_times, bin_start, bin_end) ==
    Cardinality({k \in 1..Len(rel_times) :
                   rel_times[k] >= bin_start /\ rel_times[k] < bin_end})

\* timestamps of rows minus a reference time
RelTimes(rows, t0) == [k \in 1..Len(rows) |-> rows[k].timestamp - t0]

\* plot_heatmap_by_type: the row of heatmap_data for one trial
HeatmapRow(d, trial_num, bins) ==
    LET odor_events == EventsOf(d, ODOR_ON, trial_num)
        nbins == IF Len(bins) > 0 THEN Len(bins) - 1 ELSE 0
    IN  IF odor_events = << >>
        THEN [j \in 1..nbins |-> 0]
        ELSE LET rel_times == RelTimes(EventsOf(d, LICK, trial_num),
                                       odor_events[1].timestamp)
             IN  [j \in 1..nbins |-> BinCount(rel_times, bins[j], bins[j + 1])]

\* go.Figure() with no trace
EmptyFigure == [y |-> << >>, z |-> << >>]

\* plot_heatmap_by_type(df, trial_type, window, bin_size): the y labels
\* (trial numbers) and the matrix z it hands to go.Heatmap
PlotHeatmapByType(d, has_column, trial_type, window, bin_size) ==
    LET trial_numbers == Sorted({d[k].trial_number : k \in
                                   {i \in 1..Len(d) : d[i].trial_type = trial_type}})
        bins == Arange(window[1], window[2] + bin_size, bin_size)
    IN  IF ~has_column \/ trial_numbers = << >>
        THEN EmptyFigure
        ELSE [y |-> trial_numbers,
              z |-> [i \in 1..Len(trial_numbers) |-> HeatmapRow(d, trial_numbers[i], bins)]]

PlotHeatmap ==
    /\ apc = "typed"
    /\ \E trial_type \in AnalysisTypes, w \in HeatmapWindows :
         /\ heatmap' = PlotHeatmapByType(df, has_trial_type, trial_type, <<w[1], w[2]>>, w[3])
         /\ call' = [NoCall EXCEPT !.fn = "plot_heatmap_by_type", !.trial_type = trial_type,
                                   !.window = <<w[1], w[2]>>, !.bin_size = w[3]]
    /\ comparison' = << >>
    /\ result' = NoResult
    /\ UNCHANGED <<apc, df, has_trial_type, inferred, liveVars, testerVars>>

\* A fraction num / den as the pair <<num, den>>; float division by zero and
\* the statistics of too few values give nan, written with den = 0.
NotANumber == <<0, 0>>

RECURSIVE SumSeq(_)
SumSeq(s) == IF s = << >> THEN 0 ELSE s[1] + SumSeq(Tail(s))

\* np.std(values) / np.sqrt(len(values)), squared: the population variance
\* (ddof = 0) over n; of no value, nan / 0.0
NumpySemSquared(values) ==
    LET n == Len(values)
        total == SumSeq(values)
        squares == SumSeq([k \in 1..n |-> values[k] * values[k]])
    IN  IF n = 0 THEN NotANumber ELSE <<n * squares - total * total, n * n * n>>

\* Series.sem(), squared: the sample variance (ddof = 1) over n; nan for
\* fewer than two values
PandasSemSquared(values) ==
    LET n == Len(values)
        total == SumSeq(values)
        squares == SumSeq([k \in 1..n |-> values[k] * values[k]])
    IN  IF n <= 1 THEN NotANumber ELSE <<n * squares - total * total, n * n * (n - 1)>>

\* plot_trial_comparison, 1: total licks of each trial of a condition
TotalLicks(d, trials) ==
    [k \in 1..Len(trials) |->
       [trial |-> trials[k], value |-> Len(EventsOf(d, LICK, trials[k]))]]

\* The trials of a condition that have an Odor On row: the loops of the
\* latency and window metrics skip the others (if odor_events.empty: continue)
WithOdor(d, trials) ==
    SelectSeq(trials, LAMBDA t : EventsOf(d, ODOR_ON, t) # << >>)

\* plot_trial_comparison, 2: latency of the first lick after odor onset
Latencies(d, trials) ==
    LET Has(t) ==
          LET odor_time == EventsOf(d, ODOR_ON, t)[1].timestamp
              post == Filter(EventsOf(d, LICK, t), LAMBDA r : r.timestamp > odor_time)
          IN  /\ post # << >>
              /\ post[1].timestamp - odor_time >= 0
              /\ post[1].timestamp - odor_time <= 10
        kept == SelectSeq(WithOdor(d, trials), Has)
    IN  [k \in 1..Len(kept) |->
           LET odor_time == EventsOf(d, ODOR_ON, kept[k])[1].timestamp
               post == Filter(EventsOf(d, LICK, kept[k]),
                              LAMBDA r : r.timestamp > odor_time)
           IN  [trial |-> kept[k], value |-> post[1].timestamp - odor_time]]

\* plot_trial_comparison, 3 and 4: licks with odor_time + lo <= t <= odor_time + hi
WindowCounts(d, trials, lo, hi) ==
    LET kept == WithOdor(d, trials)
    IN  [k \in 1..Len(kept) |->
           LET odor_time == EventsOf(d, ODOR_ON, kept[k])[1].timestamp
           IN  [trial |-> kept[k],
                value |-> Len(Filter(EventsOf(d, LICK, kept[k]),
                                     LAMBDA r : /\ r.timestamp >= odor_time + lo
                                                /\ r.timestamp <= odor_time + hi))]]

\* The values of a per-trial list, in its order
Values(list) == [k \in 1..Len(list) |-> list[k].value]

\* stats.ttest_ind(a, b) as recorded in stats_results: the metric and the
\* sizes of the two samples the test was computed from
TTestInd(metric, a, b) == [metric |-> metric, n1 |-> Len(a), n2 |-> Len(b)]

\* plot_trial_comparison(df): the per-trial lists behind its four panels,
\* the squared SEM of each bar and the t-tests it computes
PlotTrialComparisonLists(d, has_column) ==
    LET cs_plus_trials == TrialsOfType(d, CS_PLUS)
        cs_minus_trials == TrialsOfType(d, CS_MINUS)
        cs_plus_licks == TotalLicks(d, cs_plus_trials)
        cs_minus_licks == TotalLicks(d, cs_minus_trials)
        cs_plus_latencies == Latencies(d, cs_plus_trials)
        cs_minus_latencies == Latencies(d, cs_minus_trials)
        cs_plus_anticipatory == WindowCounts(d, cs_plus_trials, 0, 2)
        cs_minus_anticipatory == WindowCounts(d, cs_minus_trials, 0, 2)
        cs_plus_post == WindowCounts(d, cs_plus_trials, 2, 5)
        cs_minus_post == WindowCounts(d, cs_minus_trials, 2, 5)
        GuardedSem(list) ==
            IF list # << >> THEN NumpySemSquared(Values(list)) ELSE <<0, 1>>
    IN  IF ~has_column \/ Len(cs_plus_trials) = 0 \/ Len(cs_minus_trials) = 0
        THEN << >>
        ELSE <<[cs_plus_trials |-> cs_plus_trials,
                cs_minus_trials |-> cs_minus_trials,
                cs_plus_licks |-> cs_plus_licks,
                cs_minus_licks |-> cs_minus_licks,
                cs_plus_latencies |-> cs_plus_latencies,
                cs_minus_latencies |-> cs_minus_latencies,
                cs_plus_anticipatory |-> cs_plus_anticipatory,
                cs_minus_anticipatory |-> cs_minus_anticipatory,
                cs_plus_post |-> cs_plus_post,
                cs_minus_post |-> cs_minus_post,
                cs_plus_sem |-> NumpySemSquared(Values(cs_plus_licks)),
                cs_minus_sem |-> NumpySemSquared(Values(cs_minus_licks)),
                cs_plus_lat_sem |-> GuardedSem(cs_plus_latencies),
                cs_minus_lat_sem |-> GuardedSem(cs_minus_latencies),
                cs_plus_ant_sem |-> NumpySemSquared(Values(cs_plus_anticipatory)),
                cs_minus_ant_sem |-> NumpySemSquared(Values(cs_minus_anticipatory)),
                cs_plus_post_sem |-> NumpySemSquared(Values(cs_plus_post)),
                cs_minus_post_sem |-> NumpySemSquared(Values(cs_minus_post)),
                stats_results |->
                    <<TTestInd("Total Licks", cs_plus_licks, cs_minus_licks)>>
                    \o (IF Len(cs_plus_latencies) > 0 /\ Len(cs_minus_latencies) > 0
                        THEN <<TTestInd("Lick Latency", cs_plus_latencies, cs_minus_latencies)>>
                        ELSE << >>)
                    \o <<TTestInd("Anticipatory Licking",
                                   cs_plus_anticipatory, cs_minus_anticipatory),
                          TTestInd("Post-Odor Licking", cs_plus_post, cs_minus_post)>>]>>

PlotTrialComparison ==
    /\ apc = "typed"
    /\ comparison' = PlotTrialComparisonLists(df, has_trial_type)
    /\ heatmap' = EmptyFigure
    /\ call' = [NoCall EXCEPT !.fn = "plot_trial_comparison"]
    /\ result' = NoResult
    /\ UNCHANGED <<apc, df, has_trial_type, inferred, liveVars, testerVars>>

\* The tables load_data can return: rows in file order, timestamps rising
\* with the row, with or without a trial_type column.
Tables(has_column) ==
    UNION {[1..n -> [event_code : AnalysisCodes, trial_number : AnalysisTrials,
                     trial_type : IF has_column THEN AnalysisTypes ELSE {NaN}]]
             : n \in 0..MaxRows}

LoadData(has_column, t) ==
    [k \in 1..Len(t) |->
       [event_code |-> t[k].event_code, timestamp |-> k,
        trial_number |-> t[k].trial_number, trial_type |-> t[k].trial_type]]

InitAnalysis ==
    /\ InitLive
    /\ InitTester
    /\ apc = "loaded"
    /\ has_trial_type \in BOOLEAN
    /\ \E t \in Tables(has_trial_type) : df = LoadData(has_trial_type, t)
    /\ inferred = << >>
    /\ heatmap = EmptyFigure
    /\ comparison = << >>
    /\ call = NoCall
    /\ result = NoResult

NextAnalysis ==
    \/ InferTrialTypes
    \/ PlotHeatmap
    \/ PlotTrialComparison

SpecAnalysis == InitAnalysis /\ [][NextAnalysis]_vars

(***************************************************************************)
(* Binned and per-trial metrics (analysis.py, real_time_viz.py) of a table *)
(* whose rows carry any timestamps, in any order.  Times are whole units.  *)
(***************************************************************************)
\* trial_type=None, the default of compute_perievent_licking
NoTrialType == 0

\* np.arange(start, stop, 0) raises ZeroDivisionError
ArangeRaises(step) == step = 0

\* zip(bins[:-1], bins[1:]): the number of bins of an array of edges
NumBins(bins) == IF Len(bins) > 0 THEN Len(bins) - 1 ELSE 0

\* What a binning function hands back when np.arange raised inside it.
Raised(exception) ==
    [status |-> exception, bins |-> << >>, lick_count |-> << >>, n_events |-> 0]

\* compute_perievent_licking(df, align_event, trial_type, window, bin_size):
\* the edges, the summed counts and the number the counts are divided by
ComputePerieventLicking(d, align_event, trial_type, window, bin_size) ==
    LET by_code == Filter(d, LAMBDA r : r.event_code = align_event)
        alignment_events ==
            IF trial_type = NoTrialType
            THEN by_code
            ELSE Filter(by_code, LAMBDA r : r.trial_type = trial_type)
    IN  IF alignment_events = << >>
        THEN [status |-> "ok", bins |-> << >>, lick_count |-> << >>, n_events |-> 0]
        ELSE IF ArangeRaises(bin_size)
        THEN Raised("ZeroDivisionError")
        ELSE LET bins == Arange(window[1], window[2] + bin_size, bin_size)
                 bin_licks(k, i) ==
                     BinCount(RelTimes(EventsOf(d, LICK, alignment_events[k].trial_number),
                                       alignment_events[k].timestamp),
                              bins[i], bins[i + 1])
             IN  [status |-> "ok",
                  bins |-> bins,
                  lick_count |-> [i \in 1..NumBins(bins) |->
                                    SumSeq([k \in 1..Len(alignment_events) |-> bin_licks(k, i)])],
                  n_events |-> Len(alignment_events)]

\* compute_trial_lick_timecourse(df, window, bin_size): per condition the
\* trials, their per-bin counts (the rate is the count over bin_size), and
\* the per-bin mean and squared SEM of the rates
ComputeTrialLickTimecourse(d, window, bin_size) ==
    IF ArangeRaises(bin_size)
    THEN [status |-> "ZeroDivisionError", bins |-> << >>,
          cs_plus_trials |-> << >>, cs_minus_trials |-> << >>,
          cs_plus_trial_data |-> << >>, cs_minus_trial_data |-> << >>,
          cs_plus_mean |-> << >>, cs_minus_mean |-> << >>,
          cs_plus_sem |-> << >>, cs_minus_sem |-> << >>]
    ELSE LET bins == Arange(window[1], window[2] + bin_size, bin_size)
             odor_onsets == Filter(d, LAMBDA r : r.event_code = ODOR_ON)
             trial_data(trial_num) ==
                 LET odor_time == EventsOf(d, ODOR_ON, trial_num)[1].timestamp
                     rel_times == RelTimes(EventsOf(d, LICK, trial_num), odor_time)
                 IN  [i \in 1..NumBins(bins) |-> BinCount(rel_times, bins[i], bins[i + 1])]
             all_data(trials) == [k \in 1..Len(trials) |-> trial_data(trials[k])]
             column(trials, i) == [k \in 1..Len(trials) |-> trial_data(trials[k])[i]]
             mean(trials) ==
                 [i \in 1..NumBins(bins) |->
                    IF Len(trials) > 0
                    THEN <<SumSeq(column(trials, i)), Len(trials) * bin_size>>
                    ELSE <<0, 1>>]
             sem(trials) ==
                 [i \in 1..NumBins(bins) |->
                    IF Len(trials) > 0
                    THEN LET v == NumpySemSquared(column(trials, i))
                         IN  <<v[1], v[2] * bin_size * bin_size>>
                    ELSE <<0, 1>>]
             cs_plus_trials == TrialsOfType(odor_onsets, CS_PLUS)
             cs_minus_trials == TrialsOfType(odor_onsets, CS_MINUS)
         IN  [status |-> "ok", bins |-> bins,
              cs_plus_trials |-> cs_plus_trials, cs_minus_trials |-> cs_minus_trials,
              cs_plus_trial_data |-> all_data(cs_plus_trials),
              cs_minus_trial_data |-> all_data(cs_minus_trials),
              cs_plus_mean |-> mean(cs_plus_trials), cs_minus_mean |-> mean(cs_minus_trials),
              cs_plus_sem |-> sem(cs_plus_trials), cs_minus_sem |-> sem(cs_minus_trials)]

\* RealTimeVisualizer.plot_trial_comparison(data): the lick counts of the
\* response window of each Odor On row, and the squared SEM of each condition
RealTimePlotTrialComparison(d) ==
    LET odor_events == Filter(d, LAMBDA r : r.event_code = ODOR_ON)
        lick_count(odor_row) ==
            Len(Filter(EventsOf(d, LICK, odor_row.trial_number),
                       LAMBDA r : /\ r.timestamp >= odor_row.timestamp
                                  /\ r.timestamp <= odor_row.timestamp + 4))
        trial_licks == [k \in 1..Len(odor_events) |->
                          [trial_number |-> odor_events[k].trial_number,
                           trial_type |-> odor_events[k].trial_type,
                           lick_count |-> lick_count(odor_events[k])]]
        counts(t) ==
            LET rows == SelectSeq(trial_licks, LAMBDA r : r.trial_type = t)
            IN  [k \in 1..Len(rows) |-> rows[k].lick_count]
        sem(t) == IF Len(counts(t)) > 0 THEN PandasSemSquared(counts(t)) ELSE <<0, 1>>
    IN  IF odor_events = << >>
        THEN [status |-> "None", cs_plus_n |-> 0, cs_minus_n |-> 0,
              cs_plus_sem |-> <<0, 1>>, cs_minus_sem |-> <<0, 1>>]
        ELSE [status |-> "ok",
              cs_plus_n |-> Len(counts(CS_PLUS)), cs_minus_n |-> Len(counts(CS_MINUS)),
              cs_plus_sem |-> sem(CS_PLUS), cs_minus_sem |-> sem(CS_MINUS)]

\* The tables of the metric model: Odor On and Lick rows of trial 1 (CS+)
\* and trial 2 (CS-), each row with a timestamp of its own.
MetricTables ==
    UNION {[1..n -> [event_code : {ODOR_ON, LICK}, trial_number : {1, 2},
                     timestamp : MetricTimes]]
             : n \in 0..MaxMetricRows}

\* A table as read_csv returns it, every row with the type of its trial.
LoadMetricTable(t) ==
    [k \in 1..Len(t) |->
       [event_code |-> t[k].event_code, timestamp |-> t[k].timestamp,
        trial_number |-> t[k].trial_number,
        trial_type |-> IF t[k].trial_number = 1 THEN CS_PLUS ELSE CS_MINUS]]

InitMetrics ==
    /\ InitLive
    /\ InitTester
    /\ apc = "typed"
    /\ has_trial_type = TRUE
    /\ \E t \in MetricTables : df = LoadMetricTable(t)
    /\ inferred = << >>
    /\ heatmap = EmptyFigure
    /\ comparison = << >>
    /\ call = NoCall
    /\ result = NoResult

\* Each function is called on the table as loaded: none reads what another
\* returned.
\* plot_perievent_histogram and other callers of compute_perievent_licking
ComputePerievent ==
    /\ apc = "typed"
    /\ call = NoCall
    /\ \E trial_type \in {NoTrialType, CS_PLUS}, c \in BinningCalls :
         /\ call' = [NoCall EXCEPT !.fn = "compute_perievent_licking",
                                   !.align_event = ODOR_ON, !.trial_type = trial_type,
                                   !.window = <<c[1], c[2]>>, !.bin_size = c[3]]
         /\ result' = ComputePerieventLicking(df, ODOR_ON, trial_type, <<c[1], c[2]>>, c[3])
    /\ heatmap' = EmptyFigure
    /\ comparison' = << >>
    /\ UNCHANGED <<apc, df, has_trial_type, inferred, liveVars, testerVars>>

\* plot_mean_lick_timecourse and other callers of compute_trial_lick_timecourse
ComputeTimecourse ==
    /\ apc = "typed"
    /\ call = NoCall
    /\ \E c \in BinningCalls :
         /\ call' = [NoCall EXCEPT !.fn = "compute_trial_lick_timecourse",
                                   !.window = <<c[1], c[2]>>, !.bin_size = c[3]]
         /\ result' = ComputeTrialLickTimecourse(df, <<c[1], c[2]>>, c[3])
    /\ heatmap' = EmptyFigure
    /\ comparison' = << >>
    /\ UNCHANGED <<apc, df, has_trial_type, inferred, liveVars, testerVars>>

\* display_real_time_dashboard: visualizer.plot_trial_comparison(data)
RealTimeComparison ==
    /\ apc = "typed"
    /\ call = NoCall
    /\ df # << >>
    /\ call' = [NoCall EXCEPT !.fn = "RealTimeVisualizer.plot_trial_comparison"]
    /\ result' = RealTimePlotTrialComparison(df)
    /\ heatmap' = EmptyFigure
    /\ comparison' = << >>
    /\ UNCHANGED <<apc, df, has_trial_type, inferred, liveVars, testerVars>>

\* main(): plot_heatmap_by_type on the table as loaded
MetricsHeatmap ==
    /\ call = NoCall
    /\ PlotHeatmap

\* main(): plot_trial_comparison on the table as loaded
MetricsTrialComparison ==
    /\ call = NoCall
    /\ PlotTrialComparison

NextMetrics ==
    \/ ComputePerievent
    \/ ComputeTimecourse
    \/ RealTimeComparison
    \/ MetricsHeatmap
    \/ MetricsTrialComparison

SpecMetrics == InitMetrics /\ [][NextMetrics]_vars

(***************************************************************************)
(* The formulas of the metrics applied to drawn arguments.                 *)
(***************************************************************************)
\* bins = np.arange(window[0], window[1] + bin_size, bin_size) and the bins
\* zip(bins[:-1], bins[1:]) walks, as the binning functions build them
BinEdges(window, bin_size) ==
    LET bins == Arange(window[1], window[2] + bin_size, bin_size)
    IN  [status |-> "ok", bins |-> bins, n_bins |-> NumBins(bins)]

\* As DiscriminationIndex, without the test for no licks at all.
DiscriminationIndexUnguarded(bin_cs_plus_licks, bin_cs_minus_licks) ==
    <<bin_cs_plus_licks - bin_cs_minus_licks, bin_cs_plus_licks + bin_cs_minus_licks>>

\* plot_learning_curve: d_index of a bin of trials, as a fraction
DiscriminationIndex(bin_cs_plus_licks, bin_cs_minus_licks) ==
    LET total_licks == bin_cs_plus_licks + bin_cs_minus_licks
    IN  IF total_licks > 0
        THEN <<bin_cs_plus_licks - bin_cs_minus_licks, total_licks>>
        ELSE <<0, 1>>

\* Each formula is applied once, to arguments drawn afresh.
\* The windows and bin widths drawn: every window inside -MaxWindow..MaxWindow
\* with every width up to its longest span, and window = (-2, 5) with
\* bin_size = 0.1 in units of 0.1 s.
DrawnBinnings ==
    {<<a, b, w>> : a \in (0 - MaxWindow)..MaxWindow, b \in (0 - MaxWindow)..MaxWindow,
                   w \in 1..(2 * MaxWindow + 1)}
    \cup {<<0 - 20, 50, 1>>}

\* The edges of a drawn window and bin width.
MakeBins ==
    /\ call = NoCall
    /\ \E c \in DrawnBinnings :
         /\ c[1] < c[2]
         /\ call' = [NoCall EXCEPT !.fn = "bins", !.window = <<c[1], c[2]>>, !.bin_size = c[3]]
         /\ result' = BinEdges(<<c[1], c[2]>>, c[3])
    /\ UNCHANGED <<apc, df, has_trial_type, inferred, heatmap, comparison, liveVars, testerVars>>

\* The discrimination index of a bin of trials with drawn lick sums.
LearningCurveBin ==
    /\ call = NoCall
    /\ \E bin_cs_plus_licks \in 0..MaxLicks, bin_cs_minus_licks \in 0..MaxLicks :
         /\ call' = [NoCall EXCEPT !.fn = "plot_learning_curve"]
         /\ result' = [status |-> "ok",
                       bin_cs_plus_licks |-> bin_cs_plus_licks,
                       bin_cs_minus_licks |-> bin_cs_minus_licks,
                       d_index |-> DiscriminationIndex(bin_cs_plus_licks, bin_cs_minus_licks)]
    /\ UNCHANGED <<apc, df, has_trial_type, inferred, heatmap, comparison, liveVars, testerVars>>

\* range(start, stop, step) for step > 0, as a list
Range(start, stop, step) == Arange(start, stop, step)

\* plot_learning_curve: bin_edges, from the number of trials and bin_size
LearningCurveBinEdges(n_trials, bin_size) ==
    LET bin_edges == Range(1, n_trials + 1, bin_size)
    IN  IF bin_edges[Len(bin_edges)] < n_trials
        THEN Append(bin_edges, n_trials + 1)
        ELSE bin_edges

\* plot_learning_curve: the places in all_trials (counted from 0) of the
\* trials of each bin, all_trials[start_idx:end_idx]
LearningCurveBinTrials(n_trials, bin_size) ==
    LET bin_edges == LearningCurveBinEdges(n_trials, bin_size)
    IN  [i \in 1..(Len(bin_edges) - 1) |->
           {idx \in 0..(n_trials - 1) :
              idx >= bin_edges[i] - 1 /\ idx < bin_edges[i + 1] - 1}]

\* The numbers of trials and the bin sizes drawn.
DrawnTrialCounts == 1..(2 * MaxWindow + 1)

\* plot_learning_curve(df, bin_size) on a table with n_trials trial numbers:
\* the figure is made from the bins unless there are fewer trials than
\* bin_size; min(trial_numbers) raises ValueError when there is no bin
LearningCurveBinning ==
    /\ call = NoCall
    /\ \E n_trials \in DrawnTrialCounts, bin_size \in DrawnTrialCounts :
         /\ call' = [NoCall EXCEPT !.fn = "plot_learning_curve.bins",
                                   !.num_trials = n_trials, !.bin_size = bin_size]
         /\ result' =
              IF n_trials < bin_size
              THEN [status |-> "empty", bin_edges |-> << >>, bin_trials |-> << >>]
              ELSE LET bin_trials == LearningCurveBinTrials(n_trials, bin_size)
                   IN  [status |-> IF bin_trials = << >> THEN "ValueError" ELSE "ok",
                        bin_edges |-> LearningCurveBinEdges(n_trials, bin_size),
                        bin_trials |-> bin_trials]
    /\ UNCHANGED <<apc, df, has_trial_type, inferred, heatmap, comparison, liveVars,
                   testerVars>>

InitFormulas == InitLive /\ AnalysisOff /\ InitTester

NextFormulas ==
    \/ MakeBins
    \/ LearningCurveBin
    \/ LearningCurveBinning

SpecFormulas == InitFormulas /\ [][NextFormulas]_vars

(***************************************************************************)
(* The generators of test data: generate_dataset (generate_test_data.py)   *)
(* and create_example_data (dashboard.py).                                 *)
(***************************************************************************)
\* generate_dataset: trial_sequence after random.shuffle, any order of
\* num_trials // 2 times [1, 2]
TrialSequences(num_trials) ==
    LET pairs == num_trials \div 2
    IN  {seq \in [1..(2 * pairs) -> {CS_PLUS, CS_MINUS}] :
           Cardinality({k \in 1..(2 * pairs) : seq[k] = CS_PLUS}) = pairs}

\* generate_dataset: the rows appended for one trial that starts at
\* current_time, with the delay to the odor onset and the licks
\* generate_trial_licking drew (sorted offsets from the odor onset).  Times
\* are in units of 0.5 s.
TrialRows(trial_number, trial_type, current_time, odor_delay, lick_offsets) ==
    LET Row(event_code, timestamp) ==
            [event_code |-> event_code, timestamp |-> timestamp,
             trial_number |-> trial_number, trial_type |-> trial_type]
        odor_on_time == current_time + odor_delay
        odor_off_time == odor_on_time + 4
        reward_on_time == odor_off_time
        reward_off_time == reward_on_time + 1
        lick_times == [k \in 1..Len(lick_offsets) |-> odor_on_time + lick_offsets[k]]
        trial_end_time ==
            IF lick_times # << >>
            THEN lick_times[Len(lick_times)] + 2
            ELSE odor_off_time + 10
    IN  <<Row(TRIAL_START, current_time), Row(ODOR_ON, odor_on_time),
          Row(ODOR_OFF, odor_off_time)>>
        \o (IF trial_type = CS_PLUS
            THEN <<Row(REWARD_ON, reward_on_time), Row(REWARD_OFF, reward_off_time)>>
            ELSE << >>)
        \o [k \in 1..Len(lick_times) |-> Row(LICK, lick_times[k])]
        \o <<Row(TRIAL_END, trial_end_time)>>

\* generate_dataset: data after the loop over enumerate(trial_sequence, 1)
RECURSIVE DatasetRows(_, _, _)
DatasetRows(trial_sequence, delays, licks) ==
    IF trial_sequence = << >>
    THEN << >>
    ELSE LET n == Len(trial_sequence)
             before == DatasetRows(SubSeq(trial_sequence, 1, n - 1),
                                   SubSeq(delays, 1, n - 1), SubSeq(licks, 1, n - 1))
             current_time == IF before = << >> THEN 0 ELSE before[Len(before)].timestamp
         IN  before \o TrialRows(n, trial_sequence[n], current_time, delays[n], licks[n])

\* df.sort_values('timestamp'): the orders of the rows with timestamps not
\* decreasing; rows of equal timestamp come out in an order the sort
\* (quicksort, not stable) does not fix
RECURSIVE SortValues(_)
SortValues(rows) ==
    IF rows = {}
    THEN {<< >>}
    ELSE LET firsts == {r \in rows : \A q \in rows : r.timestamp <= q.timestamp}
         IN  UNION {{<<r>> \o t : t \in SortValues(rows \ {r})} : r \in firsts}

\* generate_dataset(profile_type, num_trials): the tables it can return
GenerateDataset(profile_type, num_trials) ==
    UNION {UNION {LET unsorted == DatasetRows(trial_sequence, delays, licks)
                  IN  SortValues({unsorted[k] : k \in 1..Len(unsorted)})
                    : delays \in [1..Len(trial_sequence) -> OdorDelays],
                      licks \in [1..Len(trial_sequence) -> LickOffsets]}
             : trial_sequence \in TrialSequences(num_trials)}

\* The script of generate_test_data.py and other callers of generate_dataset
Generate ==
    /\ call = NoCall
    /\ \E profile_type \in Profiles, num_trials \in 0..MaxNumTrials :
         /\ call' = [NoCall EXCEPT !.fn = "generate_dataset",
                                   !.profile_type = profile_type,
                                   !.num_trials = num_trials]
         /\ \E table \in GenerateDataset(profile_type, num_trials) :
              result' = [status |-> "ok", data |-> table]
    /\ UNCHANGED <<apc, df, has_trial_type, inferred, heatmap, comparison, liveVars, testerVars>>

\* create_example_data: trial_types after np.random.shuffle, any order of
\* [1] * 50 + [2] * 50
ShuffledTrialTypes ==
    {seq \in [1..(2 * TrialsPerType) -> {CS_PLUS, CS_MINUS}] :
       Cardinality({k \in 1..(2 * TrialsPerType) : seq[k] = CS_PLUS}) = TrialsPerType}

\* trial_types[a], trial_types[b] = trial_types[b], trial_types[a]
Swap(trial_types, a, b) ==
    [trial_types EXCEPT ![a] = trial_types[b], ![b] = trial_types[a]]

\* create_example_data: the pass "for i in range(len(trial_types) - 3)" from
\* its iteration i on; positions count from 1 here, so i runs to Len - 3
RECURSIVE FixRunsFrom(_, _)
FixRunsFrom(trial_types, i) ==
    IF i > Len(trial_types) - 3
    THEN trial_types
    ELSE IF /\ trial_types[i] = trial_types[i + 1]
            /\ trial_types[i + 1] = trial_types[i + 2]
            /\ trial_types[i + 2] = trial_types[i + 3]
         THEN LET others == {j \in (i + 4)..Len(trial_types) :
                               trial_types[j] # trial_types[i]}
              IN  IF others = {}
                  THEN FixRunsFrom(trial_types, i + 1)
                  ELSE LET j == CHOOSE x \in others : \A y \in others : x <= y
                       IN  FixRunsFrom(Swap(trial_types, i + 3, j), i + 1)
         ELSE FixRunsFrom(trial_types, i + 1)

\* create_example_data: "Check for runs of more than 3 of the same type and
\* fix if needed"
FixRuns(trial_types) == FixRunsFrom(trial_types, 1)

\* dashboard: create_example_data(), up to the trial sequence it builds
CreateExampleData ==
    /\ call = NoCall
    /\ \E shuffled \in ShuffledTrialTypes :
         /\ call' = [NoCall EXCEPT !.fn = "create_example_data"]
         /\ result' = [status |-> "ok", shuffled |-> shuffled,
                       trial_types |-> FixRuns(shuffled)]
    /\ UNCHANGED <<apc, df, has_trial_type, inferred, heatmap, comparison, liveVars, testerVars>>

(***************************************************************************)
(* generate_lick_bursts (generate_test_data.py) and the burst loop of      *)
(* create_example_data (dashboard.py), one action per iteration.  Times    *)
(* are floats in the source.  Here a time is a whole number of             *)
(* milliseconds, and the times of one call are the multiples of the        *)
(* spacing float64 has at the start time of the call: a sum is rounded to  *)
(* the nearest multiple, a tie to the even one, as the addition of two     *)
(* floats is.  The frame of the running call (its locals) is in result     *)
(* with status "running".                                                  *)
(***************************************************************************)
\* a + b of two floats where consecutive floats are spacing apart
FloatAdd(a, b, spacing) ==
    LET x == a + b
        q == x \div spacing
        r == x % spacing
    IN  IF 2 * r < spacing THEN q * spacing
        ELSE IF 2 * r > spacing THEN (q + 1) * spacing
        ELSE IF q % 2 = 0 THEN q * spacing ELSE (q + 1) * spacing

\* phase of create_burst_params
Phases == {"baseline", "anticipatory", "reward"}

\* create_burst_params: base_params[phase], intervals and jitter in ms and
\* burst_prob in thousandths.  burst_shape and burst_scale only weight the
\* draw of the burst size and are left out.
BaseParams(phase) ==
    CASE phase = "baseline" ->
           [burst_prob |-> 50, intraburst_interval |-> 120,
            interburst_interval |-> 800, baseline_interval |-> 500, jitter |-> 10]
      [] phase = "anticipatory" ->
           [burst_prob |-> 200, intraburst_interval |-> 100,
            interburst_interval |-> 400, baseline_interval |-> 300, jitter |-> 20]
      [] phase = "reward" ->
           [burst_prob |-> 600, intraburst_interval |-> 80,
            interburst_interval |-> 300, baseline_interval |-> 200, jitter |-> 10]

\* create_burst_params(profile_type, phase): the base parameters with the
\* factors of the profile
CreateBurstParams(profile_type, phase) ==
    LET params == BaseParams(phase)
    IN  CASE profile_type = "robust" /\ phase = "reward" ->
               [params EXCEPT !.burst_prob = (@ * 13) \div 10,
                              !.intraburst_interval = (@ * 9) \div 10]
          [] profile_type = "robust" /\ phase = "anticipatory" ->
               [params EXCEPT !.burst_prob = (@ * 12) \div 10]
          [] profile_type = "robust" /\ phase = "baseline" ->
               [params EXCEPT !.burst_prob = (@ * 8) \div 10]
          [] profile_type = "anticipatory" /\ phase = "anticipatory" ->
               [params EXCEPT !.burst_prob = (@ * 15) \div 10]
          [] profile_type = "anticipatory" /\ phase = "reward" ->
               [params EXCEPT !.burst_prob = (@ * 9) \div 10]
          [] profile_type = "non_learner" /\ phase = "anticipatory" ->
               [params EXCEPT !.burst_prob = (@ * 7) \div 10]
          [] profile_type = "non_learner" /\ phase = "reward" ->
               [params EXCEPT !.burst_prob = (@ * 7) \div 10]
          [] profile_type = "non_learner" /\ phase = "baseline" ->
               [params EXCEPT !.burst_prob = (@ * 15) \div 10]
          [] OTHER -> params

\* (start_time, duration, spacing) of a call of generate_lick_bursts, in ms.
\* Spacing 1: a start time of 0 s, where the sums of the loop are exact to
\* the millisecond, with a window of 0.4 s and of 1 s.  Spacing 16000: a
\* start time of 2^56 s, written as its distance 0 from 2^56 s; float64
\* values are 16 s apart from there to 2^57 s.  Its windows are 5 s and 10 s.
DrawnLickWindows ==
    {<<0, 400, 1>>, <<0, 1000, 1>>, <<0, 5000, 16000>>, <<0, 10000, 16000>>}

\* random.random() in thousandths: its least value and one near its upper end
RandomDraws == {0, 999}

\* int(np.random.gamma(shape, scale)): a draw below 1 and a draw of 3
GammaDraws == {0, 3}

\* burst_size = max(1, min(burst_size, 15))
BurstSize(gamma) ==
    LET capped == IF gamma < 15 THEN gamma ELSE 15
    IN  IF capped < 1 THEN 1 ELSE capped

\* The licks of one burst: "for i in range(burst_size)" from its iteration i
\* on, with jitters[i + 1] the draw of random.uniform(-jitter, jitter)
RECURSIVE BurstLicks(_, _, _, _, _, _, _)
BurstLicks(burst_start, burst_size, intraburst_interval, jitters, end_time, spacing, i) ==
    IF i >= burst_size
    THEN << >>
    ELSE LET lick_time == FloatAdd(FloatAdd(burst_start, i * intraburst_interval, spacing),
                                   jitters[i + 1], spacing)
         IN  IF lick_time <= end_time
             THEN <<lick_time>> \o BurstLicks(burst_start, burst_size, intraburst_interval,
                                               jitters, end_time, spacing, i + 1)
             ELSE << >>

\* generate_lick_bursts(start_time, duration, burst_params) is called: the
\* lines before the loop
LickBurstsCall ==
    /\ call = NoCall
    /\ \E profile_type \in Profiles, phase \in Phases, window \in DrawnLickWindows :
         /\ call' = [fn |-> "generate_lick_bursts", profile_type |-> profile_type,
                     phase |-> phase, start_time |-> window[1], duration |-> window[2],
                     spacing |-> window[3],
                     burst_params |-> CreateBurstParams(profile_type, phase)]
         /\ result' = [status |-> "running", lick_times |-> << >>,
                       current_time |-> window[1],
                       end_time |-> FloatAdd(window[1], window[2], window[3]),
                       iterations |-> 0]
    /\ UNCHANGED <<apc, df, has_trial_type, inferred, heatmap, comparison, liveVars, testerVars>>

\* generate_lick_bursts: one iteration of "while current_time < end_time"
LickBurstsIterate ==
    /\ call.fn = "generate_lick_bursts"
    /\ result.status = "running"
    /\ result.current_time < result.end_time
    /\ result.iterations < MaxIterations
    /\ \E random \in RandomDraws :
         IF random < call.burst_params.burst_prob
         THEN \E gamma \in GammaDraws :
                LET burst_size == BurstSize(gamma)
                    burst_start == result.current_time
                    jitter == call.burst_params.jitter
                    intraburst_interval == call.burst_params.intraburst_interval
                IN  \E jitters \in [1..burst_size -> {0 - jitter, jitter}] :
                      result' =
                        [result EXCEPT
                           !.lick_times =
                              @ \o BurstLicks(burst_start, burst_size, intraburst_interval,
                                              jitters, result.end_time, call.spacing, 0),
                           !.current_time =
                              FloatAdd(FloatAdd(burst_start, burst_size * intraburst_interval,
                                                call.spacing),
                                       call.burst_params.interburst_interval, call.spacing),
                           !.iterations = @ + 1]
         ELSE result' =
                [result EXCEPT
                   !.current_time = FloatAdd(@, call.burst_params.baseline_interval,
                                             call.spacing),
                   !.iterations = @ + 1]
    /\ UNCHANGED <<call, apc, df, has_trial_type, inferred, heatmap, comparison, liveVars, testerVars>>

\* generate_lick_bursts: the loop condition is false, "return lick_times"
LickBurstsReturn ==
    /\ call.fn = "generate_lick_bursts"
    /\ result.status = "running"
    /\ ~(result.current_time < result.end_time)
    /\ result' = [status |-> "ok", lick_times |-> result.lick_times,
                  iterations |-> result.iterations]
    /\ UNCHANGED <<call, apc, df, has_trial_type, inferred, heatmap, comparison, liveVars, testerVars>>

\* (rate, duration) of a period of create_example_data whose licks come in
\* bursts (rate > 3.0), in Hz and ms: the early odor period of a first CS-
\* trial, the early odor period and the reward period of a late CS+ trial.
\* max_burst_size is 3, 5 and 8 for them.
DrawnPeriods == {<<4, 500>>, <<15, 500>>, <<25, 2000>>}

\* max_burst_size = max(3, min(int(rate / 3), 8))
MaxBurstSize(rate) ==
    LET third == rate \div 3
        capped == IF third < 8 THEN third ELSE 8
    IN  IF capped < 3 THEN 3 ELSE capped

\* create_example_data: a period of rate > 3.0 is reached with num_licks =
\* np.random.poisson(rate * duration); times in ms from the start of the
\* period
ExampleBurstsCall ==
    /\ call = NoCall
    /\ \E period \in DrawnPeriods, num_licks \in 0..MaxLicks :
         /\ call' = [fn |-> "create_example_data.bursts", rate |-> period[1],
                     num_licks |-> num_licks, start_time |-> 0,
                     end_time |-> period[2]]
         /\ result' = [status |-> "running", remaining_licks |-> num_licks,
                       rows |-> << >>]
    /\ UNCHANGED <<apc, df, has_trial_type, inferred, heatmap, comparison, liveVars, testerVars>>

\* The rows one burst appends: lick i at burst_start + i * interval[i + 1]
\* if it lies in the period
RECURSIVE ExampleBurstRows(_, _, _, _, _, _)
ExampleBurstRows(burst_start, burst_size, intervals, start_time, end_time, i) ==
    IF i >= burst_size
    THEN << >>
    ELSE LET lick_time == burst_start + i * intervals[i + 1]
         IN  (IF start_time <= lick_time /\ lick_time < end_time
              THEN <<lick_time>> ELSE << >>)
             \o ExampleBurstRows(burst_start, burst_size, intervals, start_time,
                                 end_time, i + 1)

\* np.random.uniform(0, max(0.01, duration - 0.5)): its ends, in ms
BurstStartDraws(duration) ==
    {0, IF duration - 500 < 10 THEN 10 ELSE duration - 500}

\* create_example_data: one iteration of "while remaining_licks > 0".
\* np.random.randint(2, max_burst_size) draws from 2 .. max_burst_size - 1;
\* the interval of a lick is uniform(0.08, 0.12)
ExampleBurstIterate ==
    /\ call.fn = "create_example_data.bursts"
    /\ result.status = "running"
    /\ result.remaining_licks > 0
    /\ \E randint \in 2..(MaxBurstSize(call.rate) - 1),
          burst_start \in BurstStartDraws(call.end_time - call.start_time) :
         LET burst_size == IF result.remaining_licks < randint
                           THEN result.remaining_licks ELSE randint
         IN  \E intervals \in [1..burst_size -> {80, 120}] :
               result' =
                 [result EXCEPT
                    !.rows = @ \o ExampleBurstRows(call.start_time + burst_start,
                                                   burst_size, intervals,
                                                   call.start_time, call.end_time, 0),
                    !.remaining_licks = @ - burst_size]
    /\ UNCHANGED <<call, apc, df, has_trial_type, inferred, heatmap, comparison, liveVars, testerVars>>

\* create_example_data: the loop condition is false, on to the next period
ExampleBurstsDone ==
    /\ call.fn = "create_example_data.bursts"
    /\ result.status = "running"
    /\ ~(result.remaining_licks > 0)
    /\ result' = [status |-> "ok", rows |-> result.rows]
    /\ UNCHANGED <<call, apc, df, has_trial_type, inferred, heatmap, comparison, liveVars, testerVars>>

InitGenerator == InitLive /\ AnalysisOff /\ InitTester

NextGenerator ==
    \/ Generate
    \/ CreateExampleData
    \/ LickBurstsCall
    \/ LickBurstsIterate
    \/ LickBurstsReturn
    \/ ExampleBurstsCall
    \/ ExampleBurstIterate
    \/ ExampleBurstsDone

SpecGenerator == InitGenerator /\ [][NextGenerator]_vars

(***************************************************************************)
(* The hardware test page (hardware_test.py): ArduinoTester and the script *)
(* main() that calls it.  The tester has the fields serial, connected and  *)
(* running of ArduinoInterface and a reader thread of its own; rpc is that *)
(* thread's position, with "trim" between the append and the length check *)
(* of _process_message.                                                    *)
(***************************************************************************)
\* What the hardware test page leaves alone: the queue, the callbacks and the
\* session of app.py.
appVars == <<rmsg, data, message_queue, callbacks, messages_processed, ss_data,
             session_running, saved, log>>

\* The lines the controller sends to the test page.
TesterLines == {"READY", "DATA:7", "ERROR:"}

\* ArduinoTester._read_loop: while self.running and self.serial and
\* self.serial.is_open
TesterReaderCheck ==
    /\ rpc = "loop"
    /\ rpc' = IF running /\ serial = "open" THEN "read" ELSE "dead"
    /\ UNCHANGED <<serial, running, connected, mpc, clock, status_messages,
                   appVars, analysisVars>>

\* in_waiting is 0, or the line read is empty: sleep and loop
TesterReaderIdle ==
    /\ rpc = "read"
    /\ serial = "open"
    /\ rpc' = "loop"
    /\ UNCHANGED <<serial, running, connected, mpc, clock, status_messages,
                   appVars, analysisVars>>

\* readline() returned a line; _process_message up to and including
\* self.status_messages.append(message)
TesterAppend ==
    /\ rpc = "read"
    /\ serial = "open"
    /\ clock < MaxEvents
    /\ clock' = clock + 1
    /\ \E message \in TesterLines :
         status_messages' = Append(status_messages, message)
    /\ rpc' = "trim"
    /\ UNCHANGED <<serial, running, connected, mpc, appVars, analysisVars>>

\* if len(self.status_messages) > 20: self.status_messages.pop(0), and the
\* rest of _process_message
TesterTrim ==
    /\ rpc = "trim"
    /\ status_messages' = IF Len(status_messages) > StatusLimit
                          THEN Tail(status_messages)
                          ELSE status_messages
    /\ rpc' = "loop"
    /\ UNCHANGED <<serial, running, connected, mpc, clock, appVars, analysisVars>>

\* except Exception: append "Read error: ..." and break.  The port was
\* closed under the read, or the device failed.
TesterReadError ==
    /\ rpc = "read"
    /\ clock < MaxEvents
    /\ clock' = clock + 1
    /\ status_messages' = Append(status_messages, "Read error")
    /\ rpc' = "dead"
    /\ UNCHANGED <<serial, running, connected, mpc, appVars, analysisVars>>

\* ArduinoTester.send_command called n times in a row, each call writing the
\* command or appending "Send error: ..." (errors of the n calls)
TesterSendCommands(n, errors) ==
    /\ errors \in 0..n
    /\ errors > 0 => (connected /\ serial # "none")
    /\ clock + errors <= MaxEvents
    /\ clock' = clock + errors
    /\ status_messages' =
         status_messages \o [k \in 1..errors |-> "Send error"]

\* "Connect" pressed, connect() succeeds, send_command("STATUS"), st.rerun()
TesterConnectOk ==
    /\ mpc = "idle"
    /\ ~connected
    /\ rpc \in {"none", "dead"}
    /\ serial' = "open"
    /\ connected' = TRUE
    /\ running' = TRUE
    /\ rpc' = "loop"
    /\ \E errors \in 0..1 :
         /\ clock + errors <= MaxEvents
         /\ clock' = clock + errors
         /\ status_messages' = status_messages \o [k \in 1..errors |-> "Send error"]
    /\ UNCHANGED <<mpc, appVars, analysisVars>>

\* "Connect" pressed, serial.Serial raises: "Connection error: ..." is
\* appended and connect() returns False
TesterConnectFail ==
    /\ mpc = "idle"
    /\ ~connected
    /\ clock < MaxEvents
    /\ clock' = clock + 1
    /\ status_messages' = Append(status_messages, "Connection error")
    /\ UNCHANGED <<serial, running, connected, rpc, mpc, appVars, analysisVars>>

\* A button of the page that sends one command: "Request Status Update",
\* the manual controls, the tests
TesterButton ==
    /\ mpc = "idle"
    /\ connected
    /\ \E errors \in 0..1 : TesterSendCommands(1, errors)
    /\ UNCHANGED <<serial, running, connected, rpc, mpc, appVars, analysisVars>>

\* "Disconnect" pressed: disconnect() up to the join, with its two
\* send_command calls
TesterDisconnectBegin ==
    /\ mpc = "idle"
    /\ connected
    /\ \E errors \in 0..2 : TesterSendCommands(2, errors)
    /\ running' = FALSE
    /\ mpc' = "join"
    /\ UNCHANGED <<serial, connected, rpc, appVars, analysisVars>>

\* self.thread.join(timeout=1.0) returns, the port is closed and connected
\* is cleared.  The timeout can run out only while the reader waits in its
\* read.
TesterDisconnectEnd ==
    /\ mpc = "join"
    /\ rpc \in {"dead", "read"}
    /\ serial' = IF serial = "open" THEN "closed" ELSE serial
    /\ connected' = FALSE
    /\ mpc' = "idle"
    /\ UNCHANGED <<running, rpc, clock, status_messages, appVars, analysisVars>>

NextTester ==
    \/ TesterReaderCheck
    \/ TesterReaderIdle
    \/ TesterAppend
    \/ TesterTrim
    \/ TesterReadError
    \/ TesterConnectOk
    \/ TesterConnectFail
    \/ TesterButton
    \/ TesterDisconnectBegin
    \/ TesterDisconnectEnd

SpecTester == Init /\ [][NextTester]_vars

(***************************************************************************)
(* Offline analysis: what the claims speak of.                             *)
(***************************************************************************)
\* The table has a Reward On (5) row of this trial.
HasReward(d, trial) ==
    \E j \in 1..Len(d) : d[j].trial_number = trial /\ d[j].event_code = 5

\* The table has no Odor On (3) row of this trial.
NoStimulusOn(d, trial) ==
    \A j \in 1..Len(d) : ~(d[j].trial_number = trial /\ d[j].event_code = 3)

\* The trial numbers that have an entry in some per-trial list of the comparison.
MetricTrials ==
    IF comparison = << >>
    THEN {}
    ELSE LET c == comparison[1]
             lists == {c.cs_plus_licks, c.cs_minus_licks,
                       c.cs_plus_latencies, c.cs_minus_latencies,
                       c.cs_plus_anticipatory, c.cs_minus_anticipatory,
                       c.cs_plus_post, c.cs_minus_post}
         IN  UNION {{l[k].trial : k \in 1..Len(l)} : l \in lists}

\* The trial numbers counted as a Treatment or a Control trial of the comparison.
ConditionTrials ==
    IF comparison = << >>
    THEN {}
    ELSE {comparison[1].cs_plus_trials[k] : k \in 1..Len(comparison[1].cs_plus_trials)}
         \cup {comparison[1].cs_minus_trials[k] : k \in 1..Len(comparison[1].cs_minus_trials)}

\* C7: without a trial_type column each trial is labelled Treatment (1) if it
\* has a Reward On row and Control (2) if not, on every one of its rows; with
\* the column the table is left as loaded.
C7_InferenceByReward ==
    [][(apc = "loaded" /\ apc' = "typed") =>
         IF has_trial_type
         THEN df' = df
         ELSE /\ Len(df') = Len(df)
              /\ \A k \in 1..Len(df) :
                   /\ df[k].trial_number >= 1 =>
                        (df'[k].trial_type = 1 <=> HasReward(df, df[k].trial_number))
                   /\ df[k].trial_number >= 1 =>
                        (df'[k].trial_type = 2 <=> ~HasReward(df, df[k].trial_number))
                   /\ df'[k].event_code = df[k].event_code
                   /\ df'[k].timestamp = df[k].timestamp
                   /\ df'[k].trial_number = df[k].trial_number]_vars

\* C7 witness: the inference ran on a table with a rewarded trial and an
\* unrewarded one and labelled the first Treatment, the second Control.
C7_Witness ==
    /\ apc = "typed"
    /\ inferred # << >>
    /\ \E a, b \in {n \in AnalysisTrials : n >= 1} :
         /\ HasReward(df, a)
         /\ ~HasReward(df, b)
         /\ \E k \in 1..Len(df) : df[k].trial_number = a /\ df[k].trial_type = 1
         /\ \E k \in 1..Len(df) : df[k].trial_number = b /\ df[k].trial_type = 2

\* C8: a trial (numbered 1 or more) with no StimulusOn row has no row in the
\* heatmap matrix and no entry in any per-trial metric list.
C8_IncompleteTrialsExcluded ==
    /\ \A i \in 1..Len(heatmap.y) :
         heatmap.y[i] >= 1 => ~NoStimulusOn(df, heatmap.y[i])
    /\ \A t \in MetricTrials : t >= 1 => ~NoStimulusOn(df, t)

\* C9: trial 0 is never counted as a Treatment or Control trial and has no
\* entry in any per-trial metric list; the inference counts only the trials
\* numbered 1 or more.
C9_TrialZeroExcluded ==
    /\ 0 \notin ConditionTrials
    /\ 0 \notin MetricTrials
    /\ inferred # << >> =>
         inferred[1] + inferred[2] =
           Cardinality({df[k].trial_number : k \in 1..Len(df)} \ {0})

(***************************************************************************)
(* Live acquisition: what the claims speak of.                             *)
(***************************************************************************)
\* The place of an appended row's event in the order the reader received
\* the events; the timestamps of the link increase, so it is unique.
ArrivalIndex(row) ==
    CHOOSE i \in 1..Len(data) : data[i] = <<row.event_code, row.timestamp>>

\* TrialStart events among the first i events received.
StartsUpTo(i) == Cardinality({j \in 1..i : data[j][1] = 1})

\* The (event_code, timestamp) pairs of the rows appended so far, in order.
LogEvents == [k \in 1..Len(log) |-> <<log[k].event_code, log[k].timestamp>>]

\* The (event_code, timestamp) pairs waiting in the queue, in order.
QueuedEvents ==
    LET q == SelectSeq(message_queue, LAMBDA m : m.type = "data")
    IN  [k \in 1..Len(q) |-> <<q[k].event_code, q[k].timestamp>>]

\* The pair the reader has stored in self.data and not yet put.
InFlight == IF rpc = "put" THEN <<rmsg>> ELSE << >>

\* disconnect() has returned and no connect() has succeeded since.
Disconnected == ~connected /\ rpc # "none"

\* The event of the row came after a trial's TrialEnd with no TrialStart since.
PostTrial(row) ==
    LET i == ArrivalIndex(row)
    IN  \E e \in 1..(i - 1) :
          /\ data[e][1] = 2
          /\ \E b \in 1..(e - 1) : data[b][1] = 1
          /\ \A j \in (e + 1)..i : data[j][1] # 1

\* C1: every appended row carries the number of TrialStart events that had
\* arrived at or before its event, under every interleaving of the reader
\* thread with the queue drain.
C1_TrialNumberIsArrivalCount ==
    \A k \in 1..Len(log) : log[k].trial_number = StartsUpTo(ArrivalIndex(log[k]))

\* C2: once disconnect() has returned, no row is appended to the EventStream
\* and the reader thread puts no further message on the queue.
C2_NoAppendAfterDisconnect ==
    [][Disconnected =>
         /\ log' = log
         /\ (rpc' # rpc => message_queue' = message_queue)]_vars

\* C3: the rows appended, then the data messages still queued, then the event
\* the reader has yet to put, are exactly the events received, in the order
\* received; one call of process_queue handles at most BatchLimit messages.
C3_ArrivalOrderPreserved ==
    /\ data = LogEvents \o QueuedEvents \o InFlight
    /\ messages_processed <= BatchLimit

\* C3 witness: a call of process_queue stopped at its limit with a data
\* message left in the queue behind the rows it appended.
C3_Witness ==
    /\ mpc = "drain"
    /\ messages_processed = BatchLimit
    /\ Len(log) = BatchLimit
    /\ QueuedEvents # << >>

\* C4: the queue between the reader thread and the main thread stays under a
\* fixed cap, here any cap below the number of messages the link offers.
C4_QueueBounded == Len(message_queue) < MaxEvents

C6_OneConditionPerTrial ==
    \A k \in 1..Len(ss_data) :
      ss_data[k].trial_number >= 1 =>
        \E c \in {1, 2} :
          \A j \in 1..Len(ss_data) :
            ss_data[j].trial_number = ss_data[k].trial_number =>
              ss_data[j].trial_type = c

\* C10: an event whose code is outside 1..7 is never appended.
C10_UnknownCodeRejected ==
    \A k \in 1..Len(log) : log[k].event_code \in 1..7

\* The row is the first TrialStart row of the session EventStream, or comes
\* before it.
UpToFirstStart(k) == \A j \in 1..(k - 1) : ss_data[j].event_code # 1

\* C26: in the EventStream of a running session, emptied by Start Session,
\* the first TrialStart row has trial_number 1 and the rows before it have
\* trial_number 0, also when the connection carried events before.
C26_NewSessionStartsAtOne ==
    session_running =>
      \A k \in 1..Len(ss_data) :
        UpToFirstStart(k) =>
          ss_data[k].trial_number = IF ss_data[k].event_code = 1 THEN 1 ELSE 0

\* A call of process_queue takes the SESSION_COMPLETE message at place i of
\* the queue and hands it to handle_status.
HandlesSessionComplete(i) ==
    /\ mpc = "drain"
    /\ i \in 1..Len(message_queue)
    /\ message_queue[i].type = "status"
    /\ message_queue[i].text = "SESSION_COMPLETE"
    /\ message_queue' = Without(message_queue, i)
    /\ messages_processed' = messages_processed + 1

\* The stream is the last rows appended: those since it was last emptied.
IsSuffixOfLog(stream) ==
    /\ Len(stream) <= Len(log)
    /\ stream = SubSeq(log, Len(log) - Len(stream) + 1, Len(log))

C30_ConnectedOnlyWhileReading ==
    (rpc = "dead" /\ mpc # "join") => ~connected

(***************************************************************************)
(* Binned and per-trial metrics: what the claims speak of.                 *)
(***************************************************************************)
\* The trials with a row of the aligned code (and type) of the last call.
AlignedTrials ==
    {df[k].trial_number : k \in
       {i \in 1..Len(df) :
          /\ df[i].event_code = call.align_event
          /\ call.trial_type # 0 => df[i].trial_type = call.trial_type}}

\* The Lick rows of a set of trials.
LickRows(trials) ==
    {k \in 1..Len(df) : df[k].event_code = 7 /\ df[k].trial_number \in trials}

\* C11: compute_perievent_licking aligns each trial to one reference event
\* only: the counts of the histogram add up to no more than the licks of the
\* aligned trials, and the number the counts are divided by is the number of
\* aligned trials; compute_trial_lick_timecourse counts no lick of a trial
\* more than once and lists each trial once.
C11_FirstReferenceOnly ==
    /\ (call.fn = "compute_perievent_licking" /\ result.status = "ok") =>
         /\ SumSeq(result.lick_count) <= Cardinality(LickRows(AlignedTrials))
         /\ result.n_events = Cardinality(AlignedTrials)
    /\ (call.fn = "compute_trial_lick_timecourse" /\ result.status = "ok") =>
         /\ \A k \in 1..Len(result.cs_plus_trials) :
              /\ SumSeq(result.cs_plus_trial_data[k])
                   <= Cardinality(LickRows({result.cs_plus_trials[k]}))
              /\ \A j \in 1..Len(result.cs_plus_trials) :
                   result.cs_plus_trials[j] = result.cs_plus_trials[k] => j = k
         /\ \A k \in 1..Len(result.cs_minus_trials) :
              /\ SumSeq(result.cs_minus_trial_data[k])
                   <= Cardinality(LickRows({result.cs_minus_trials[k]}))
              /\ \A j \in 1..Len(result.cs_minus_trials) :
                   result.cs_minus_trials[j] = result.cs_minus_trials[k] => j = k

\* The trial has exactly one Odor On row: its stimulus onset is not in doubt.
OneOnset(trial) ==
    Cardinality({k \in 1..Len(df) :
                   df[k].event_code = 3 /\ df[k].trial_number = trial}) = 1

\* The timestamp of the first Odor On row of the trial.
Onset(trial) ==
    df[CHOOSE k \in 1..Len(df) :
         /\ df[k].event_code = 3 /\ df[k].trial_number = trial
         /\ \A j \in 1..(k - 1) : ~(df[j].event_code = 3 /\ df[j].trial_number = trial)
      ].timestamp

\* The Lick rows of the trial whose time relative to the onset is in [lo, hi].
LicksWithin(trial, lo, hi) ==
    {k \in LickRows({trial}) :
       /\ df[k].timestamp - Onset(trial) >= lo
       /\ df[k].timestamp - Onset(trial) <= hi}

\* C12: in the matrix of plot_heatmap_by_type the per-bin counts of a trial
\* add up to the number of the trial's licks whose time relative to the
\* stimulus onset lies in the window [a, b]: no lick is lost and none is
\* counted that lies outside.
C12_BinSumsMatchWindow ==
    call.fn = "plot_heatmap_by_type" =>
      \A i \in 1..Len(heatmap.y) :
        OneOnset(heatmap.y[i]) =>
          SumSeq(heatmap.z[i]) =
            Cardinality(LicksWithin(heatmap.y[i], call.window[1], call.window[2]))

\* The last call passed a window with minimum below maximum and a positive
\* bin width.
ValidBinning == call.window[1] < call.window[2] /\ call.bin_size > 0

\* C13: no lick whose time relative to the stimulus onset lies outside the
\* window [t_min, t_max] of the call is counted in a bin, whatever the bin
\* width: the counts of a trial add up to no more than its licks inside the
\* window, in compute_trial_lick_timecourse and in compute_perievent_licking.
C13_OutsideWindowDropped ==
    /\ (call.fn = "compute_trial_lick_timecourse" /\ ValidBinning) =>
         /\ \A k \in 1..Len(result.cs_plus_trials) :
              OneOnset(result.cs_plus_trials[k]) =>
                SumSeq(result.cs_plus_trial_data[k]) <=
                  Cardinality(LicksWithin(result.cs_plus_trials[k],
                                          call.window[1], call.window[2]))
         /\ \A k \in 1..Len(result.cs_minus_trials) :
              OneOnset(result.cs_minus_trials[k]) =>
                SumSeq(result.cs_minus_trial_data[k]) <=
                  Cardinality(LicksWithin(result.cs_minus_trials[k],
                                          call.window[1], call.window[2]))
    /\ (call.fn = "compute_perievent_licking" /\ ValidBinning
          /\ \A t \in AlignedTrials : OneOnset(t)) =>
         SumSeq(result.lick_count) <=
           Cardinality(UNION {LicksWithin(t, call.window[1], call.window[2]) :
                                t \in AlignedTrials})

\* ceil(x / w) for x >= 0 and w > 0: the least n with n * w >= x.
CeilDiv(x, w) == CHOOSE n \in 0..x : n * w >= x /\ (n - 1) * w < x

C17_DiscriminationIndex ==
    call.fn = "plot_learning_curve" =>
      LET T == result.bin_cs_plus_licks
          C == result.bin_cs_minus_licks
          d == result.d_index
      IN  /\ d[2] > 0
          /\ T + C > 0 => d[1] * (T + C) = (T - C) * d[2]
          /\ (T = 0 /\ C = 0) => d[1] = 0
          /\ (C = 0 /\ T > 0) => d[1] = d[2]
          /\ d[1] <= d[2]
          /\ d[1] >= 0 - d[2]

\* C17 witness: a bin whose Control trials have no lick and whose Treatment
\* trials have some, with index 1.
C17_Witness ==
    /\ call.fn = "plot_learning_curve"
    /\ result.bin_cs_minus_licks = 0
    /\ result.bin_cs_plus_licks > 0
    /\ result.d_index[1] = result.d_index[2]

\* The fraction is the number 0, not nan.
IsZero(f) == f[1] = 0 /\ f[2] # 0

\* C15: a SEM computed from the values of exactly one trial, or of no trial,
\* is the number 0: in compute_trial_lick_timecourse (every bin), in
\* RealTimeVisualizer.plot_trial_comparison and in plot_trial_comparison
\* (every panel).
C15_SemOfOneTrialIsZero ==
    /\ (call.fn = "compute_trial_lick_timecourse" /\ result.status = "ok") =>
         /\ Len(result.cs_plus_trials) <= 1 =>
              \A i \in 1..Len(result.cs_plus_sem) : IsZero(result.cs_plus_sem[i])
         /\ Len(result.cs_minus_trials) <= 1 =>
              \A i \in 1..Len(result.cs_minus_sem) : IsZero(result.cs_minus_sem[i])
    /\ (call.fn = "RealTimeVisualizer.plot_trial_comparison" /\ result.status = "ok") =>
         /\ result.cs_plus_n <= 1 => IsZero(result.cs_plus_sem)
         /\ result.cs_minus_n <= 1 => IsZero(result.cs_minus_sem)
    /\ comparison # << >> =>
         LET c == comparison[1]
         IN  /\ Len(c.cs_plus_licks) <= 1 => IsZero(c.cs_plus_sem)
             /\ Len(c.cs_minus_licks) <= 1 => IsZero(c.cs_minus_sem)
             /\ Len(c.cs_plus_latencies) <= 1 => IsZero(c.cs_plus_lat_sem)
             /\ Len(c.cs_minus_latencies) <= 1 => IsZero(c.cs_minus_lat_sem)
             /\ Len(c.cs_plus_anticipatory) <= 1 => IsZero(c.cs_plus_ant_sem)
             /\ Len(c.cs_minus_anticipatory) <= 1 => IsZero(c.cs_minus_ant_sem)
             /\ Len(c.cs_plus_post) <= 1 => IsZero(c.cs_plus_post_sem)
             /\ Len(c.cs_minus_post) <= 1 => IsZero(c.cs_minus_post_sem)

\* The latencies of the trial's licks that count: those from 0 to 10 s after
\* the stimulus onset.
CountedLatencies(trial) ==
    {df[k].timestamp - Onset(trial) : k \in LicksWithin(trial, 0, 10)}

\* The entries of a latency list for the trial.
LatencyEntries(list, trial) == {k \in 1..Len(list) : list[k].trial = trial}

\* The latency list holds, for the trial, the smallest counted latency, and
\* no entry if the trial has none.
LatencyIsSmallest(list, trial) ==
    IF CountedLatencies(trial) = {}
    THEN LatencyEntries(list, trial) = {}
    ELSE /\ LatencyEntries(list, trial) # {}
         /\ \A k \in LatencyEntries(list, trial) :
              /\ list[k].value \in CountedLatencies(trial)
              /\ \A l \in CountedLatencies(trial) : list[k].value <= l

\* C16: the latency plot_trial_comparison records for a trial is the smallest
\* of (lick timestamp - stimulus onset) over the trial's licks with a latency
\* in [0, 10] s, whatever the order of the rows; a trial with a stimulus
\* onset has no latency only if it has no such lick.
C16_LatencyIsFirstResponse ==
    comparison # << >> =>
      /\ \A k \in 1..Len(comparison[1].cs_plus_trials) :
           OneOnset(comparison[1].cs_plus_trials[k]) =>
             LatencyIsSmallest(comparison[1].cs_plus_latencies,
                               comparison[1].cs_plus_trials[k])
      /\ \A k \in 1..Len(comparison[1].cs_minus_trials) :
           OneOnset(comparison[1].cs_minus_trials[k]) =>
             LatencyIsSmallest(comparison[1].cs_minus_latencies,
                               comparison[1].cs_minus_trials[k])

\* C18: plot_trial_comparison computes no t-test from an empty sample: it
\* refuses the comparison of a metric to which a condition contributes no
\* per-trial value.
C18_NoTTestOnEmptySample ==
    comparison # << >> =>
      \A k \in 1..Len(comparison[1].stats_results) :
        /\ comparison[1].stats_results[k].n1 > 0
        /\ comparison[1].stats_results[k].n2 > 0

\* C19: a binning call with a bin width of 0 or less, or with a window whose
\* minimum is not below its maximum, returns a configuration error and no
\* histogram: no other exception, no empty histogram handed back as valid.
C19_InvalidBinningRejected ==
    (/\ call.fn \in {"compute_perievent_licking", "compute_trial_lick_timecourse"}
     /\ ~ValidBinning) =>
      /\ result.status = "ConfigurationError"
      /\ result.bins = << >>

\* The rows of the generated table with this event code.
GeneratedRows(event_code) ==
    {k \in 1..Len(result.data) : result.data[k].event_code = event_code}

\* C20: generate_dataset asked for n trials returns a table with n
\* TrialStart rows, numbered 1..n, and every one of those trials has a
\* StimulusOn row.
C20_GeneratesRequestedTrials ==
    call.fn = "generate_dataset" =>
      /\ Cardinality(GeneratedRows(1)) = call.num_trials
      /\ {result.data[k].trial_number : k \in GeneratedRows(1)} = 1..call.num_trials
      /\ \A t \in 1..call.num_trials :
           \E k \in GeneratedRows(3) : result.data[k].trial_number = t

\* The timestamp of the generated row of this event code and trial.
GeneratedTime(event_code, trial) ==
    result.data[CHOOSE k \in GeneratedRows(event_code) :
                  result.data[k].trial_number = trial].timestamp

\* C21: in every table of generate_dataset, for every trial and every draw
\* of its licks, TrialStart <= StimulusOn <= StimulusOff <= TrialEnd in time.
C21_TrialEventOrder ==
    call.fn = "generate_dataset" =>
      \A t \in {result.data[k].trial_number : k \in GeneratedRows(1)} :
        /\ GeneratedTime(1, t) <= GeneratedTime(3, t)
        /\ GeneratedTime(3, t) <= GeneratedTime(4, t)
        /\ GeneratedTime(4, t) <= GeneratedTime(2, t)

\* TrialStart rows of the generated table with a timestamp below t.
StartsBefore(t) ==
    Cardinality({k \in GeneratedRows(1) : result.data[k].timestamp < t})

\* TrialStart rows of the generated table with a timestamp of t or below.
StartsUntil(t) ==
    Cardinality({k \in GeneratedRows(1) : result.data[k].timestamp <= t})

\* C22: a scan of the generated table in timestamp order that numbers each
\* row by the TrialStart rows seen so far gives every row the trial_number
\* the generator wrote, with rows of one timestamp taken in the order that
\* suits; a lick of trial k lies at or after the TrialStart of trial k, at or
\* before its TrialEnd and before the TrialStart of trial k + 1.
C22_ScanReproducesTrialNumbers ==
    call.fn = "generate_dataset" =>
      \A k \in 1..Len(result.data) :
        LET row == result.data[k]
        IN  /\ StartsBefore(row.timestamp) <= row.trial_number
            /\ row.trial_number <= StartsUntil(row.timestamp)
            /\ row.event_code = 7 =>
                 /\ GeneratedTime(1, row.trial_number) <= row.timestamp
                 /\ row.timestamp <= GeneratedTime(2, row.trial_number)
                 /\ \A j \in GeneratedRows(1) :
                      result.data[j].trial_number = row.trial_number + 1 =>
                        row.timestamp < result.data[j].timestamp

\* The number of trials of the type in a trial sequence.
TypeCount(trial_types, t) ==
    Cardinality({k \in 1..Len(trial_types) : trial_types[k] = t})

\* C24: after the shuffle-and-fix pass of create_example_data the sequence
\* has no run of more than 3 trials of one type, whatever the shuffle gave,
\* and as many trials of type 1 and of type 2 as before the pass.
C24_NoLongRunAfterFix ==
    call.fn = "create_example_data" =>
      /\ \A i \in 1..(Len(result.trial_types) - 3) :
           ~(/\ result.trial_types[i] = result.trial_types[i + 1]
             /\ result.trial_types[i] = result.trial_types[i + 2]
             /\ result.trial_types[i] = result.trial_types[i + 3])
      /\ TypeCount(result.trial_types, 1) = TypeCount(result.shuffled, 1)
      /\ TypeCount(result.trial_types, 2) = TypeCount(result.shuffled, 2)

\* A step is an iteration of the loop of the function: the call is running
\* before it and after it.
Iterates(fn) ==
    /\ call.fn = fn
    /\ result.status = "running"
    /\ result'.status = "running"

\* C25: every iteration of the loop of generate_lick_bursts leaves
\* current_time above the value it found, whether it emits a burst or not,
\* for every start time, every window, every parameter set of
\* create_burst_params and every draw; every iteration of the burst loop of
\* create_example_data leaves remaining_licks lower and not below 0.  So
\* both loops end.
C25_LoopsTerminate ==
    [][/\ Iterates("generate_lick_bursts") =>
            result'.current_time > result.current_time
       /\ Iterates("create_example_data.bursts") =>
            /\ result'.remaining_licks < result.remaining_licks
            /\ result'.remaining_licks >= 0]_vars

\* The value a per-trial list holds for the trial, 0 if it holds none.
ValueOf(list, trial) ==
    IF \E k \in 1..Len(list) : list[k].trial = trial
    THEN list[CHOOSE k \in 1..Len(list) : list[k].trial = trial].value
    ELSE 0

\* C29: plot_trial_comparison counts each lick of a trial in at most one of
\* the anticipatory (0-2 s after stimulus onset) and post-stimulus (2-5 s)
\* metrics, a lick exactly 2 s after the onset included: the two counts of a
\* trial add up to no more than its licks.
C29_WindowsDoNotOverlap ==
    comparison # << >> =>
      LET c == comparison[1]
      IN  /\ \A k \in 1..Len(c.cs_plus_trials) :
               ValueOf(c.cs_plus_anticipatory, c.cs_plus_trials[k])
                 + ValueOf(c.cs_plus_post, c.cs_plus_trials[k])
                 <= Cardinality(LickRows({c.cs_plus_trials[k]}))
          /\ \A k \in 1..Len(c.cs_minus_trials) :
               ValueOf(c.cs_minus_anticipatory, c.cs_minus_trials[k])
                 + ValueOf(c.cs_minus_post, c.cs_minus_trials[k])
                 <= Cardinality(LickRows({c.cs_minus_trials[k]}))

(***************************************************************************)
(* Learning curve: what the claims speak of.                               *)
(***************************************************************************)
\* C28: for every number of trials N >= bin_size >= 1 plot_learning_curve
\* makes at least one bin and its bins partition the trials: every trial,
\* the last one too, is in exactly one bin.
C28_BinsPartitionTrials ==
    (call.fn = "plot_learning_curve.bins" /\ call.num_trials >= call.bin_size) =>
      /\ result.status = "ok"
      /\ Len(result.bin_trials) >= 1
      /\ \A idx \in 0..(call.num_trials - 1) :
           Cardinality({i \in 1..Len(result.bin_trials) :
                          idx \in result.bin_trials[i]}) = 1

(***************************************************************************)
(* Hardware test page: what the claims speak of.                           *)
(***************************************************************************)
\* C23: ArduinoTester.status_messages holds no more than the limit (20 in
\* the source) after any sequence of received messages, connection errors,
\* send errors and read errors, in any interleaving of the reader thread and
\* the main thread; the entry _process_message has appended and not yet
\* checked is not counted.
C23_StatusMessagesBounded ==
    rpc # "trim" => Len(status_messages) <= StatusLimit

====
